---- MODULE Spec2Model ----
(***************************************************************************)
(* The investment accrual engine of backend/services/calculations.py.      *)
(*                                                                         *)
(* Representation.                                                         *)
(*   - A datetime at UTC midnight is its day number (days since            *)
(*     1970-01-01); Year, Month and Day give its calendar fields.          *)
(*   - An ISO timestamp string (UTC, "Z") is a number of ticks,            *)
(*     TicksPerDay ticks to the day, so that a timestamp carries a time    *)
(*     of day that to_utc_start_of_day cuts off.  NoTs is None (or the     *)
(*     empty string), MalformedTs a string that datetime.fromisoformat     *)
(*     rejects.                                                            *)
(*   - Money is a whole number of cents.  round(x * 100) / 100 is the      *)
(*     rounding of the exact product to the nearest cent, ties to even.    *)
(*   - months_elapsed is a whole number of 1/MonthUnit months.             *)
(*   - An investment snapshot is a function from the keys it has to their  *)
(*     values, so that a missing key and both key styles can be told       *)
(*     apart.                                                              *)
(***************************************************************************)
EXTENDS Integers, Sequences, FiniteSets, TLC

VARIABLES investment, now, as_of_date, result,
          start_date, end_date, segments,
          final_payout,
          the_cursor, pc, the_last_month_end,
          id_counter, id_lock, id_call, id_returns,
          withdrawals, requests, admin_response

vars == <<investment, now, as_of_date, result, start_date, end_date, segments,
          final_payout, the_cursor, pc, the_last_month_end,
          id_counter, id_lock, id_call, id_returns,
          withdrawals, requests, admin_response>>

engineVars == <<investment, now, as_of_date, result, final_payout>>
segVars == <<start_date, end_date, segments>>

\* the position in a loop of the engine followed step by step
loopVars == <<the_cursor, pc, the_last_month_end>>

\* the row of id_counters, the lock of each process, the calls of get_next_id
\* and the IDs returned so far
idVars == <<id_counter, id_lock, id_call, id_returns>>

\* the withdrawals table, the requests being served and the last answer to
\* the admin
workflowVars == <<withdrawals, requests, admin_response>>

\* what the calls of the engine as a whole leave alone
restVars == <<loopVars, idVars, workflowVars>>

-----------------------------------------------------------------------------
(* Bounds of the model *)

TicksPerDay == 2
HorizonDays == 431
SegSpan == 120
MaxSegments == 4
PureDays == 3
MaxIdCalls == 3
MaxWithdrawals == 2

-----------------------------------------------------------------------------
(* Values *)

NoTs == 0 - 1
MalformedTs == 0 - 2
NoStr == "None"

\* months_elapsed counts in 1/MonthUnit: every month length divides it
MonthUnit == 4 * 7 * 29 * 3 * 5 * 31

Min(a, b) == IF a < b THEN a ELSE b

\* the day number of day d of the month mp (March = 0) of the year yy
days_from_civil(yy, mp, d) ==
    (yy \div 400) * 146097 + (yy % 400) * 365 + (yy % 400) \div 4 - (yy % 400) \div 100
        + (153 * mp + 2) \div 5 + d - 1 - 719468

\* datetime(y, m, d): the day number of a calendar date
DateTime(y, m, d) ==
    days_from_civil(IF m <= 2 THEN y - 1 ELSE y, IF m > 2 THEN m - 3 ELSE m + 9, d)

civil_of_month(yy, doy, mp) ==
    [year  |-> IF mp < 10 THEN yy ELSE yy + 1,
     month |-> IF mp < 10 THEN mp + 3 ELSE mp - 9,
     day   |-> doy - (153 * mp + 2) \div 5 + 1]

civil_of_year_day(yy, doy) == civil_of_month(yy, doy, (5 * doy + 2) \div 153)

civil_of_year(era, doe, yoe) ==
    civil_of_year_day(yoe + era * 400, doe - (365 * yoe + yoe \div 4 - yoe \div 100))

civil_of_era(era, doe) ==
    civil_of_year(era, doe,
                  (doe - doe \div 1460 + doe \div 36524 - doe \div 146096) \div 365)

\* the calendar fields of a day number
Civil(z) == civil_of_era((z + 719468) \div 146097, (z + 719468) % 146097)

\* the calendar of the years the model's dates fall in, computed once
Calendar == [z \in DateTime(2020, 1, 1) .. DateTime(2029, 12, 31) |-> Civil(z)]

Year(z) == Calendar[z].year
Month(z) == Calendar[z].month
Day(z) == Calendar[z].day

\* datetime.isoformat() of a midnight datetime, as a timestamp
isoformat(date) == date * TicksPerDay

\* the timestamp of a calendar date at a tick of the day
Ts(y, m, d, tick) == DateTime(y, m, d) * TicksPerDay + tick

-----------------------------------------------------------------------------
(* Date utility functions *)

\* mutant: a timestamp with a time of day is rejected too
Unparseable_with_time(value) == value < 0 \/ value % TicksPerDay # 0

\* datetime.fromisoformat raises ValueError
Unparseable(value) == value < 0

to_utc_start_of_day(value) == value \div TicksPerDay

add_days_utc(date, days) == date + days

next_month_of(y, m) == IF m = 12 THEN DateTime(y + 1, 1, 1) ELSE DateTime(y, m + 1, 1)

get_days_in_month_utc(date) == Day(next_month_of(Year(date), Month(date)) - 1)

\* mutant: the end day is not counted
diff_days_exclusive(first, last) == last - first

diff_days_inclusive(first, last) == (last - first) + 1

\* mutant: a year taken as 365 days
add_365_day_years(date, n) == date + 365 * n

\* date + relativedelta(years = n): same month, day clipped to the month
relativedelta_years(date, n) ==
    DateTime(Year(date) + n, Month(date),
             Min(Day(date), get_days_in_month_utc(DateTime(Year(date) + n, Month(date), 1))))

-----------------------------------------------------------------------------
(* Accrual segmentation *)

push_partial(segs, segment_start, segment_end, days_in_month) ==
    Append(segs, [type |-> "partial",
                  start |-> segment_start,
                  end |-> segment_end,
                  days |-> diff_days_inclusive(segment_start, segment_end),
                  days_in_month |-> days_in_month])

\* to_utc_start_of_day(datetime(cursor.year, cursor.month, days_in_month).isoformat())
month_end_of(cursor, days_in_month) ==
    to_utc_start_of_day(isoformat(DateTime(Year(cursor), Month(cursor), days_in_month)))

RECURSIVE full_months(_, _, _)

\* mutant: a month that ends on the window's last day is not a full month
full_or_last_partial_strict(segs, cursor, last, days_in_month, month_end) ==
    IF month_end < last
    THEN full_months(Append(segs, [type |-> "full",
                                   start |-> cursor,
                                   end |-> month_end,
                                   days |-> days_in_month,
                                   days_in_month |-> days_in_month]),
                     add_days_utc(month_end, 1), last)
    ELSE push_partial(segs, cursor, last, days_in_month)

\* the body of the while loop
full_or_last_partial(segs, cursor, last, days_in_month, month_end) ==
    IF month_end <= last
    THEN full_months(Append(segs, [type |-> "full",
                                   start |-> cursor,
                                   end |-> month_end,
                                   days |-> days_in_month,
                                   days_in_month |-> days_in_month]),
                     add_days_utc(month_end, 1), last)
    ELSE push_partial(segs, cursor, last, days_in_month)

\* while cursor <= end_date
full_months(segs, cursor, last) ==
    IF cursor <= last
    THEN full_or_last_partial(segs, cursor, last, get_days_in_month_utc(cursor),
                              month_end_of(cursor, get_days_in_month_utc(cursor)))
    ELSE segs

\* the first partial month, ending at segment_end, and the months after it
first_partial(first, last, days_in_month, segment_end) ==
    full_months(push_partial(<<>>, first, segment_end, days_in_month),
                add_days_utc(segment_end, 1), last)

build_accrual_segments(first, last) ==
    IF last < first
    THEN <<>>
    ELSE IF Day(first) # 1
         THEN first_partial(first, last, get_days_in_month_utc(first),
                            IF month_end_of(first, get_days_in_month_utc(first)) < last
                            THEN month_end_of(first, get_days_in_month_utc(first))
                            ELSE last)
         ELSE full_months(<<>>, first, last)

RECURSIVE months_from(_, _)
months_from(segs, i) ==
    IF i > Len(segs) THEN 0
    ELSE (IF segs[i].type = "full"
          THEN MonthUnit
          ELSE (segs[i].days * MonthUnit) \div segs[i].days_in_month)
         + months_from(segs, i + 1)

calculate_months_elapsed(segs) == months_from(segs, 1)

-----------------------------------------------------------------------------
(* Rates and rounding *)

\* RATES, in percent
RATES == [p \in {"1-year", "3-year"} |-> IF p = "1-year" THEN 8 ELSE 10]

\* RATES.get(lockup_period, 0.08)
RATES_get(lockup_period) ==
    IF lockup_period \in DOMAIN RATES THEN RATES[lockup_period] ELSE 8

\* round(x): the integer nearest to num / den, a tie going to the even one.
\* The code rounds the double nearest to the product; that differs from the
\* rounding of the exact product only where the exact product is a tie, and
\* on the amounts and dates of this model the code returns these values.
round(num, den) ==
    IF 2 * (num % den) > den \/ (2 * (num % den) = den /\ (num \div den) % 2 = 1)
    THEN num \div den + 1
    ELSE num \div den

\* round(cents/100 * (apy/12) * 100), apy in percent
monthly_interest_of(cents, apy) == round(cents * apy, 1200)

\* mutant: the partial segment credited for one day too many
daily_interest_one_day_more(cents, apy, days) == round(cents * apy * (days + 1), 36500)

\* round(cents/100 * (apy/365) * days * 100), apy in percent
daily_interest_of(cents, apy, days) == round(cents * apy * days, 36500)

-----------------------------------------------------------------------------
(* Compounding and monthly payout *)

\* the interest of one segment on a balance
segment_interest(segment, balance, apy) ==
    IF segment.type = "full"
    THEN monthly_interest_of(balance, apy)
    ELSE daily_interest_of(balance, apy, segment.days)

RECURSIVE compound_from(_, _, _, _, _)

\* mutant: the interest is not added to the balance
add_interest_simple(segs, i, balance, total_earnings, apy, interest) ==
    compound_from(segs, i + 1, balance, total_earnings + interest, apy)

add_interest(segs, i, balance, total_earnings, apy, interest) ==
    compound_from(segs, i + 1, balance + interest, total_earnings + interest, apy)

\* for segment in segments, from the i-th on
compound_from(segs, i, balance, total_earnings, apy) ==
    IF i > Len(segs)
    THEN <<balance, total_earnings>>
    ELSE add_interest(segs, i, balance, total_earnings, apy,
                      segment_interest(segs[i], balance, apy))

\* mutant: the earnings are counted from the principal on
calculate_compounding_earnings_from_principal(principal, segs, apy) ==
    compound_from(segs, 1, principal, principal, apy)

\* returns <<balance, total_earnings>>
calculate_compounding(principal, segs, apy) ==
    compound_from(segs, 1, principal, 0, apy)

RECURSIVE payout_from(_, _, _, _, _)
payout_from(segs, i, principal, monthly_interest, apy) ==
    IF i > Len(segs) THEN 0
    ELSE (IF segs[i].type = "full"
          THEN monthly_interest
          ELSE daily_interest_of(principal, apy, segs[i].days))
         + payout_from(segs, i + 1, principal, monthly_interest, apy)

\* mutant: the interest paid out is counted in the current value
calculate_monthly_payout_reinvested(principal, segs, apy) ==
    <<principal + payout_from(segs, 1, principal, monthly_interest_of(principal, apy), apy),
      payout_from(segs, 1, principal, monthly_interest_of(principal, apy), apy)>>

\* returns <<principal, total_earnings>>
calculate_monthly_payout(principal, segs, apy) ==
    <<principal, payout_from(segs, 1, principal, monthly_interest_of(principal, apy), apy)>>

-----------------------------------------------------------------------------
(* Main calculation function *)

RECURSIVE last_completed_loop(_, _, _)

\* mutant: a month that ends on the evaluation date is already completed
last_completed_step_on_day(cursor, current_date, last_month_end, month_end) ==
    IF month_end <= current_date
    THEN last_completed_loop(add_days_utc(month_end, 1), current_date, month_end)
    ELSE last_month_end

last_completed_step(cursor, current_date, last_month_end, month_end) ==
    IF month_end < current_date
    THEN last_completed_loop(add_days_utc(month_end, 1), current_date, month_end)
    ELSE last_month_end

\* while cursor <= current_date
last_completed_loop(cursor, current_date, last_month_end) ==
    IF cursor <= current_date
    THEN last_completed_step(cursor, current_date, last_month_end,
                             DateTime(Year(cursor), Month(cursor),
                                      get_days_in_month_utc(cursor)))
    ELSE last_month_end

last_or_day_before(first, last_month_end) ==
    IF last_month_end # NoTs THEN last_month_end ELSE add_days_utc(first, 0 - 1)

find_last_completed_month_end(first, current_date) ==
    last_or_day_before(first, last_completed_loop(first, current_date, NoTs))

\* investment.get(key, default)
Get(inv, key, default) == IF key \in DOMAIN inv THEN inv[key] ELSE default

\* a or b, for timestamps and for strings
OrTs(a, b) == IF a # NoTs THEN a ELSE b
OrStr(a, b) == IF a # NoStr THEN a ELSE b

confirmation_timestamp_of(inv) ==
    OrTs(Get(inv, "confirmedAt", NoTs), Get(inv, "confirmed_at", NoTs))
\* mutant: a lockupEndDate that does not parse is taken as absent
lockup_end_date_value_if_parseable(inv) ==
    IF OrTs(Get(inv, "lockupEndDate", NoTs), Get(inv, "lockup_end_date", NoTs)) = MalformedTs
    THEN NoTs
    ELSE OrTs(Get(inv, "lockupEndDate", NoTs), Get(inv, "lockup_end_date", NoTs))

lockup_end_date_value_of(inv) ==
    OrTs(Get(inv, "lockupEndDate", NoTs), Get(inv, "lockup_end_date", NoTs))
lockup_period_of(inv) ==
    OrStr(Get(inv, "lockupPeriod", NoStr), Get(inv, "lockup_period", NoStr))
payment_frequency_of(inv) ==
    OrStr(Get(inv, "paymentFrequency", NoStr), Get(inv, "payment_frequency", NoStr))
amount_of(inv) == Get(inv, "amount", 0)

Valuation(cv, te, me, w, led, mia) ==
    [error |-> "", current_value |-> cv, total_earnings |-> te,
     months_elapsed |-> me, is_withdrawable |-> w, lockup_end_date |-> led,
     monthly_interest_amount |-> mia]

\* the call ends in the ValueError of datetime.fromisoformat
ValueError ==
    [error |-> "ValueError", current_value |-> 0, total_earnings |-> 0,
     months_elapsed |-> 0, is_withdrawable |-> FALSE, lockup_end_date |-> NoTs,
     monthly_interest_amount |-> 0]

\* mutant: a pending investment accrues too
AccruingStatusesWithPending == {"active", "withdrawal_notice", "withdrawn", "pending"}

AccruingStatuses == {"active", "withdrawal_notice", "withdrawn"}

\* mutant: withdrawable only after the lockup end date
is_withdrawable_after(lockup_comparison_date, lockup_end_date) ==
    lockup_comparison_date > lockup_end_date

is_withdrawable_at(lockup_comparison_date, lockup_end_date) ==
    lockup_comparison_date >= lockup_end_date

\* mutant: accrual starts on the confirmation day
accrual_start_same_day(confirmed_date) == add_days_utc(confirmed_date, 0)

accrual_start_of(confirmed_date) == add_days_utc(confirmed_date, 1)

lockup_years_of(lockup_period) == IF lockup_period = "3-year" THEN 3 ELSE 1

lockup_end_date_of(inv, confirmed_date) ==
    IF lockup_end_date_value_of(inv) # NoTs
    THEN to_utc_start_of_day(lockup_end_date_value_of(inv))
    ELSE relativedelta_years(confirmed_date, lockup_years_of(lockup_period_of(inv)))

\* mutant: the month in progress is credited in conservative mode too
calculation_end_inclusive(accrual_start_date, current_date, include_partial_month) ==
    current_date

calculation_end_of(accrual_start_date, current_date, include_partial_month) ==
    IF include_partial_month
    THEN current_date
    ELSE find_last_completed_month_end(accrual_start_date, current_date)

\* mutant: the monthly interest is shown for a compounding investment too
monthly_interest_amount_any_frequency(inv) ==
    monthly_interest_of(amount_of(inv), RATES_get(lockup_period_of(inv)))

\* monthly_interest_amount, for display
monthly_interest_amount_of(inv) ==
    IF payment_frequency_of(inv) = "monthly"
    THEN monthly_interest_of(amount_of(inv), RATES_get(lockup_period_of(inv)))
    ELSE 0

\* the result, from the <<current_value, total_earnings>> of the segments
value_result(inv, segs, valued, withdrawable, lockup_end_date) ==
    Valuation(valued[1], valued[2], calculate_months_elapsed(segs), withdrawable,
              isoformat(lockup_end_date), monthly_interest_amount_of(inv))

\* from "Calculate interest based on payment frequency" on
value_of_segments(inv, segs, withdrawable, lockup_end_date) ==
    value_result(inv, segs,
                 IF payment_frequency_of(inv) = "compounding"
                 THEN calculate_compounding(amount_of(inv), segs,
                                            RATES_get(lockup_period_of(inv)))
                 ELSE calculate_monthly_payout(amount_of(inv), segs,
                                               RATES_get(lockup_period_of(inv))),
                 withdrawable, lockup_end_date)

\* from "If before accrual starts, no interest yet" on
value_from_dates(inv, as_of, include_partial_month, accrual_start_date, current_date, lockup_end_date) ==
    IF current_date < accrual_start_date
    THEN Valuation(amount_of(inv), 0, 0, FALSE, isoformat(lockup_end_date),
                   monthly_interest_amount_of(inv))
    ELSE value_of_segments(
             inv,
             build_accrual_segments(
                 accrual_start_date,
                 calculation_end_of(accrual_start_date, current_date,
                                    include_partial_month)),
             is_withdrawable_at(IF as_of = NoTs THEN current_date
                                ELSE to_utc_start_of_day(as_of),
                                lockup_end_date),
             lockup_end_date)

\* mutant: the clock is read although an as_of_date was passed
current_date_of_clock(as_of, utcnow) == to_utc_start_of_day(utcnow)

\* to_utc_start_of_day(as_of_date or datetime.utcnow().isoformat() + 'Z')
current_date_of(as_of, utcnow) ==
    IF as_of # NoTs THEN to_utc_start_of_day(as_of) ELSE to_utc_start_of_day(utcnow)

calculate_investment_value(inv, as_of, include_partial_month, utcnow) ==
    IF DOMAIN inv = {}
    THEN Valuation(0, 0, 0, FALSE, NoTs, 0)
    ELSE IF Get(inv, "status", NoStr) \notin AccruingStatuses
    THEN Valuation(amount_of(inv), 0, 0, FALSE, NoTs, 0)
    ELSE IF confirmation_timestamp_of(inv) = NoTs
    THEN Valuation(amount_of(inv), 0, 0, FALSE, NoTs, 0)
    ELSE IF Unparseable(confirmation_timestamp_of(inv))
    THEN ValueError
    ELSE IF as_of # NoTs /\ Unparseable(as_of)
    THEN ValueError
    ELSE IF lockup_end_date_value_of(inv) # NoTs
            /\ Unparseable(lockup_end_date_value_of(inv))
    THEN ValueError
    ELSE value_from_dates(
             inv, as_of, include_partial_month,
             accrual_start_of(to_utc_start_of_day(confirmation_timestamp_of(inv))),
             current_date_of(as_of, utcnow),
             lockup_end_date_of(inv, to_utc_start_of_day(confirmation_timestamp_of(inv))))

-----------------------------------------------------------------------------
(* Final withdrawal payout *)

\* no payout has been calculated
NoPayout == [k \in {} |-> 0]

\* the ValueError of the valuation, passed on to the caller
PayoutError == [error |-> "ValueError"]

\* the result for an investment without confirmedAt
payout_without_confirmation(inv, withdrawal_date, utcnow) ==
    [error |-> "",
     final_value |-> amount_of(inv),
     total_earnings |-> 0,
     principal_amount |-> amount_of(inv),
     withdrawal_date |-> OrTs(withdrawal_date, utcnow)]

\* the result made of the valuation up to the withdrawal date
payout_of_calculation(inv, withdrawal_date, utcnow, calculation) ==
    IF calculation.error # ""
    THEN PayoutError
    ELSE [error |-> "",
          final_value |-> calculation.current_value,
          total_earnings |-> calculation.total_earnings,
          principal_amount |-> amount_of(inv),
          withdrawal_date |-> OrTs(withdrawal_date, utcnow),
          months_elapsed |-> calculation.months_elapsed]

\* investment and investment.get('confirmedAt')
has_confirmedAt(inv) == DOMAIN inv # {} /\ Get(inv, "confirmedAt", NoTs) # NoTs

calculate_final_withdrawal_payout(inv, withdrawal_date, utcnow) ==
    IF ~has_confirmedAt(inv)
    THEN payout_without_confirmation(inv, withdrawal_date, utcnow)
    ELSE payout_of_calculation(inv, withdrawal_date, utcnow,
                               calculate_investment_value(inv, withdrawal_date, TRUE, utcnow))

-----------------------------------------------------------------------------
(* The snapshots and dates of the model *)

Amounts == {1000000, 100000}

ConfirmTimes == {Ts(2023, 12, 31, 0), Ts(2024, 1, 1, 0),
                 Ts(2024, 1, 15, 1), Ts(2024, 2, 29, 0)}

\* what the routers hand to the engine with camelCase keys
CamelSnapshots ==
    {[status |-> "active", amount |-> a, paymentFrequency |-> f,
      lockupPeriod |-> p, confirmedAt |-> c] :
        a \in Amounts, f \in {"compounding", "monthly"},
        p \in {"1-year", "3-year"}, c \in ConfirmTimes}

\* 3-year investments whose lockup ends while the clock runs
OldSnapshots ==
    {[status |-> "active", amount |-> 1000000, paymentFrequency |-> f,
      lockupPeriod |-> "3-year", confirmedAt |-> Ts(2021, 1, 15, 1)] :
        f \in {"compounding", "monthly"}}

\* snapshots with a stored lockupEndDate
StoredLockupSnapshots ==
    {[status |-> "active", amount |-> 1000000, paymentFrequency |-> f,
      lockupPeriod |-> "1-year", confirmedAt |-> Ts(2024, 1, 15, 1),
      lockupEndDate |-> l] :
        f \in {"compounding", "monthly"},
        l \in {Ts(2024, 1, 10, 1), Ts(2024, 7, 15, 1), Ts(2025, 1, 15, 1)}}

\* a database row (snake_case keys), and the other accruing statuses
OtherAccruingSnapshots ==
    {[status |-> "active", amount |-> 1000000, payment_frequency |-> "compounding",
      lockup_period |-> "3-year", confirmed_at |-> Ts(2024, 1, 15, 1),
      lockup_end_date |-> Ts(2027, 1, 15, 1)],
     [status |-> "withdrawal_notice", amount |-> 1000000, paymentFrequency |-> "monthly",
      lockupPeriod |-> "1-year", confirmedAt |-> Ts(2024, 1, 15, 1)],
     [status |-> "withdrawn", amount |-> 1000000, paymentFrequency |-> "compounding",
      lockupPeriod |-> "1-year", confirmedAt |-> Ts(2024, 1, 15, 1)],
     [status |-> "active", amount |-> 1000000, paymentFrequency |-> "compounding",
      lockupPeriod |-> "2-year", confirmedAt |-> Ts(2024, 1, 15, 1)],
     [status |-> "active", amount |-> 1000000, paymentFrequency |-> "compounding",
      confirmedAt |-> Ts(2024, 1, 15, 1)]}

\* snapshots that cannot accrue
IdleSnapshots ==
    {[k \in {} |-> 0],
     [amount |-> 1000000],
     [status |-> "draft", amount |-> 1000000, paymentFrequency |-> "compounding",
      lockupPeriod |-> "1-year"],
     [status |-> "pending", amount |-> 1000000, paymentFrequency |-> "monthly",
      lockupPeriod |-> "1-year", confirmedAt |-> Ts(2024, 1, 15, 1),
      lockupEndDate |-> Ts(2024, 1, 10, 1)],
     [status |-> "rejected", amount |-> 100000, paymentFrequency |-> "compounding",
      lockupPeriod |-> "3-year", confirmedAt |-> MalformedTs],
     [status |-> "active", amount |-> 1000000, paymentFrequency |-> "monthly",
      lockupPeriod |-> "1-year"],
     [status |-> "active", amount |-> 100000, paymentFrequency |-> "compounding",
      lockupPeriod |-> "1-year", confirmedAt |-> NoTs, lockupEndDate |-> Ts(2024, 1, 10, 1)]}

\* snapshots with a timestamp that does not parse
MalformedSnapshots ==
    {[status |-> "active", amount |-> 1000000, paymentFrequency |-> "compounding",
      lockupPeriod |-> "1-year", confirmedAt |-> MalformedTs],
     [status |-> "active", amount |-> 1000000, paymentFrequency |-> "compounding",
      lockupPeriod |-> "1-year", confirmedAt |-> Ts(2024, 1, 15, 1),
      lockupEndDate |-> MalformedTs],
     [status |-> "active", amount |-> 1000000, paymentFrequency |-> "compounding",
      lockupPeriod |-> "1-year", confirmedAt |-> Ts(2024, 1, 15, 1),
      confirmed_at |-> MalformedTs]}

Snapshots == CamelSnapshots \cup OldSnapshots \cup StoredLockupSnapshots \cup OtherAccruingSnapshots
                 \cup IdleSnapshots \cup MalformedSnapshots

\* the snapshots that are also valued without an as_of_date, at the clock's
\* time: the database row and the investment of test_lockup_end_date among them
ClockSnapshots ==
    OtherAccruingSnapshots \cup IdleSnapshots \cup MalformedSnapshots
        \cup {s \in CamelSnapshots : s.amount = 1000000 /\ s.lockupPeriod = "1-year"}

\* the clock starts before every confirmation
StartTime == Ts(2023, 12, 30, TicksPerDay - 1)

Modes == BOOLEAN

\* the snapshot valued at one moment in both modes
Valuations(inv, as_of, utcnow) ==
    [include_partial_month \in Modes |->
        calculate_investment_value(inv, as_of, include_partial_month, utcnow)]

-----------------------------------------------------------------------------
(* The engine called as time goes by *)

\* no loop is being followed
LoopIdle ==
    /\ the_cursor = 0
    /\ pc = "idle"
    /\ the_last_month_end = NoTs

\* the server processes, and the threads of a process
Processes == {"p1", "p2"}
Threads == {"t1", "t2"}
Callers == Processes \X Threads

\* no row for the id_type in id_counters
NoRow == 0 - 1

\* the ID made of the time when the database call failed
FallbackId == 0 - 2

\* the lock of a process is free
NoThread == "None"

NotCalling == [pc |-> "idle", current_value |-> NoRow]

\* get_next_id is not being called
IdIdle ==
    /\ id_counter = NoRow
    /\ id_lock = [p \in Processes |-> NoThread]
    /\ id_call = [c \in Callers |-> NotCalling]
    /\ id_returns = <<>>

\* the requests served at the same time
Requesters == {"r1", "r2"}

NotRequesting == [pc |-> "idle", status |-> NoStr, response |-> "none"]

\* no withdrawal has been requested
WorkflowIdle ==
    /\ withdrawals = <<>>
    /\ requests = [r \in Requesters |-> NotRequesting]
    /\ admin_response = "none"

RestIdle == LoopIdle /\ IdIdle /\ WorkflowIdle

SegIdle ==
    /\ start_date = 0
    /\ end_date = 0
    /\ segments = <<>>

Init ==
    /\ investment \in Snapshots
    /\ now = StartTime
    /\ as_of_date \in (IF investment \in ClockSnapshots THEN {StartTime, NoTs}
                       ELSE {StartTime})
    /\ result = Valuations(investment, as_of_date, now)
    /\ final_payout = NoPayout
    /\ RestIdle
    /\ SegIdle

\* a day passes and the caller passes the time as as_of_date
ValuateAsOf ==
    /\ as_of_date # NoTs
    /\ to_utc_start_of_day(now) < to_utc_start_of_day(StartTime) + HorizonDays
    /\ now' = now + TicksPerDay
    /\ as_of_date' = now'
    /\ result' = Valuations(investment, as_of_date', now')
    /\ final_payout' = NoPayout
    /\ UNCHANGED <<investment, segVars, restVars>>

\* a day passes and the caller passes no as_of_date: the engine reads the clock
ValuateNow ==
    /\ as_of_date = NoTs
    /\ to_utc_start_of_day(now) < to_utc_start_of_day(StartTime) + HorizonDays
    /\ now' = now + TicksPerDay
    /\ as_of_date' = NoTs
    /\ result' = Valuations(investment, as_of_date', now')
    /\ final_payout' = NoPayout
    /\ UNCHANGED <<investment, segVars, restVars>>

Next == ValuateAsOf \/ ValuateNow

Spec == Init /\ [][Next]_vars

-----------------------------------------------------------------------------
(* build_accrual_segments over growing windows *)

SegStarts == {DateTime(2024, 1, 1), DateTime(2024, 1, 16), DateTime(2024, 1, 31),
              DateTime(2024, 2, 1), DateTime(2024, 2, 29), DateTime(2023, 12, 31),
              DateTime(2025, 2, 2), DateTime(2024, 11, 30)}

InitSeg ==
    /\ investment = [k \in {} |-> 0]
    /\ now = StartTime
    /\ as_of_date = NoTs
    /\ result = Valuations(investment, as_of_date, now)
    /\ final_payout = NoPayout
    /\ RestIdle
    /\ start_date \in SegStarts
    /\ end_date = start_date - 2
    /\ segments = build_accrual_segments(start_date, end_date)

ExtendWindow ==
    /\ end_date < start_date + SegSpan
    /\ end_date' = end_date + 1
    /\ segments' = build_accrual_segments(start_date, end_date')
    /\ UNCHANGED <<start_date, engineVars, restVars>>

NextSeg == ExtendWindow

SpecSeg == InitSeg /\ [][NextSeg]_vars

-----------------------------------------------------------------------------
(* The loops of build_accrual_segments and find_last_completed_month_end,
   one iteration at a time *)

\* mutant: the cursor is put two days after the month end
next_cursor_skipping(month_end) == add_days_utc(month_end, 2)

\* cursor = add_days_utc(month_end, 1)
next_cursor(month_end) == add_days_utc(month_end, 1)

\* the window of the call: start_date, and end_date or current_date
InitLoop ==
    /\ investment = [k \in {} |-> 0]
    /\ now = StartTime
    /\ as_of_date = NoTs
    /\ result = Valuations(investment, as_of_date, now)
    /\ final_payout = NoPayout
    /\ start_date \in SegStarts
    /\ end_date \in (start_date - 2) .. (start_date + SegSpan)
    /\ segments = <<>>
    /\ the_cursor = start_date
    /\ the_last_month_end = NoTs
    /\ pc \in {"build", "find"}
    /\ IdIdle
    /\ WorkflowIdle

\* if end_date < start_date: return []
BuildEmpty ==
    /\ pc = "build"
    /\ end_date < start_date
    /\ pc' = "build_returned"
    /\ UNCHANGED <<engineVars, segVars, the_cursor, the_last_month_end, idVars, workflowVars>>

\* the first partial month, if the window does not start on the 1st
BuildFirstPartial ==
    /\ pc = "build"
    /\ ~(end_date < start_date)
    /\ IF Day(the_cursor) # 1
       THEN LET days_in_month == get_days_in_month_utc(the_cursor)
                month_end == month_end_of(the_cursor, days_in_month)
                segment_end == IF month_end < end_date THEN month_end ELSE end_date
            IN  /\ segments' = push_partial(segments, the_cursor, segment_end, days_in_month)
                /\ the_cursor' = add_days_utc(segment_end, 1)
       ELSE UNCHANGED <<segments, the_cursor>>
    /\ pc' = "while"
    /\ UNCHANGED <<engineVars, start_date, end_date, the_last_month_end, idVars, workflowVars>>

\* one iteration of while cursor <= end_date
BuildIteration ==
    /\ pc = "while"
    /\ the_cursor <= end_date
    /\ LET days_in_month == get_days_in_month_utc(the_cursor)
           month_end == month_end_of(the_cursor, days_in_month)
       IN  IF month_end <= end_date
           THEN /\ segments' = Append(segments, [type |-> "full",
                                                 start |-> the_cursor,
                                                 end |-> month_end,
                                                 days |-> days_in_month,
                                                 days_in_month |-> days_in_month])
                /\ the_cursor' = next_cursor(month_end)
                /\ pc' = "while"
           ELSE /\ segments' = push_partial(segments, the_cursor, end_date, days_in_month)
                /\ the_cursor' = the_cursor
                /\ pc' = "build_returned"
    /\ UNCHANGED <<engineVars, start_date, end_date, the_last_month_end, idVars, workflowVars>>

\* the loop condition fails: return segments
BuildReturn ==
    /\ pc = "while"
    /\ ~(the_cursor <= end_date)
    /\ pc' = "build_returned"
    /\ UNCHANGED <<engineVars, segVars, the_cursor, the_last_month_end, idVars, workflowVars>>

\* one iteration of while cursor <= current_date, which is end_date here
FindIteration ==
    /\ pc = "find"
    /\ the_cursor <= end_date
    /\ LET days_in_month == get_days_in_month_utc(the_cursor)
           month_end == DateTime(Year(the_cursor), Month(the_cursor), days_in_month)
       IN  IF month_end < end_date
           THEN /\ the_last_month_end' = month_end
                /\ the_cursor' = next_cursor(month_end)
                /\ pc' = "find"
           ELSE /\ pc' = "find_returned"
                /\ UNCHANGED <<the_cursor, the_last_month_end, idVars, workflowVars>>
    /\ UNCHANGED <<engineVars, segVars, idVars, workflowVars>>

\* the loop condition fails: return
FindReturn ==
    /\ pc = "find"
    /\ ~(the_cursor <= end_date)
    /\ pc' = "find_returned"
    /\ UNCHANGED <<engineVars, segVars, the_cursor, the_last_month_end, idVars, workflowVars>>

NextLoop ==
    \/ BuildEmpty \/ BuildFirstPartial \/ BuildIteration \/ BuildReturn
    \/ FindIteration \/ FindReturn

\* a call that has started goes on
SpecLoop == InitLoop /\ [][NextLoop]_vars /\ WF_vars(NextLoop)

-----------------------------------------------------------------------------
(* get_next_id called for one id_type by the threads of the processes *)

\* the first value of the counter of withdrawal IDs
InitialWithdrawalId == 10001

\* the calls that have started
CallsStarted ==
    Len(id_returns) + Cardinality({c \in Callers : id_call[c].pc # "idle"})

InitId ==
    /\ investment = [k \in {} |-> 0]
    /\ now = StartTime
    /\ as_of_date = NoTs
    /\ result = Valuations(investment, as_of_date, now)
    /\ final_payout = NoPayout
    /\ SegIdle
    /\ LoopIdle
    /\ WorkflowIdle
    /\ id_counter \in {NoRow, InitialWithdrawalId}
    /\ id_lock = [p \in Processes |-> NoThread]
    /\ id_call = [c \in Callers |-> NotCalling]
    /\ id_returns = <<>>

\* a call that starts without waiting for the lock
AcquireLock_without_waiting(c) ==
    /\ id_call[c].pc = "idle"
    /\ CallsStarted < MaxIdCalls
    /\ id_lock' = [id_lock EXCEPT ![c[1]] = c[2]]
    /\ id_call' = [id_call EXCEPT ![c].pc = "locked"]
    /\ UNCHANGED <<id_counter, id_returns>>

\* with _id_lock: the lock of the caller's own process is taken
AcquireLock(c) ==
    /\ id_call[c].pc = "idle"
    /\ CallsStarted < MaxIdCalls
    /\ id_lock[c[1]] = NoThread
    /\ id_lock' = [id_lock EXCEPT ![c[1]] = c[2]]
    /\ id_call' = [id_call EXCEPT ![c].pc = "locked"]
    /\ UNCHANGED <<id_counter, id_returns>>

\* select current_value from id_counters
SelectCounter(c) ==
    /\ id_call[c].pc = "locked"
    /\ id_call' = [id_call EXCEPT ![c] = [pc |-> "selected", current_value |-> id_counter]]
    /\ UNCHANGED <<id_counter, id_lock, id_returns>>

\* the ID is returned and the lock released
ReturnId(c, value) ==
    /\ id_returns' = Append(id_returns, [caller |-> c, id |-> value])
    /\ id_lock' = [id_lock EXCEPT ![c[1]] = NoThread]
    /\ id_call' = [id_call EXCEPT ![c] = NotCalling]

\* an increment made by the database on the value the row has
UpdateCounter_in_the_database(c) ==
    /\ id_call[c].pc = "selected"
    /\ id_call[c].current_value # NoRow
    /\ id_counter' = id_counter + 1
    /\ ReturnId(c, id_counter + 1)

\* the row is updated to current_value + 1
UpdateCounter(c) ==
    /\ id_call[c].pc = "selected"
    /\ id_call[c].current_value # NoRow
    /\ id_counter' = id_call[c].current_value + 1
    /\ ReturnId(c, id_call[c].current_value + 1)

\* there was no row: it is inserted with the first value, which the
\* primary key refuses when another call has inserted it in the meantime
InsertCounter(c) ==
    /\ id_call[c].pc = "selected"
    /\ id_call[c].current_value = NoRow
    /\ IF id_counter = NoRow
       THEN /\ id_counter' = InitialWithdrawalId
            /\ ReturnId(c, InitialWithdrawalId)
       ELSE /\ id_counter' = id_counter
            /\ ReturnId(c, FallbackId)

\* a database call raises: the ID is made of the time
DatabaseFails(c) ==
    /\ id_call[c].pc \in {"locked", "selected"}
    /\ id_counter' = id_counter
    /\ ReturnId(c, FallbackId)

GetNextId(c) ==
    /\ \/ AcquireLock(c)
       \/ SelectCounter(c)
       \/ UpdateCounter(c)
       \/ InsertCounter(c)
       \/ DatabaseFails(c)
    /\ UNCHANGED <<engineVars, segVars, loopVars, workflowVars>>

NextId == \E c \in Callers : GetNextId(c)

SpecId == InitId /\ [][NextId]_vars

\* one process only
NextIdOneProcess == \E c \in {"p1"} \X Threads : GetNextId(c)

SpecIdOneProcess == InitId /\ [][NextIdOneProcess]_vars

-----------------------------------------------------------------------------
(* The withdrawal of one investment: requests of the investor, actions of
   the admin *)

\* the rows of the investments table
InvestmentRows ==
    {[status |-> "active", amount |-> 1000000, payment_frequency |-> "compounding",
      lockup_period |-> "1-year", confirmed_at |-> Ts(2024, 1, 15, 1),
      lockup_end_date |-> Ts(2025, 1, 15, 1)],
     [status |-> "active", amount |-> 1000000, payment_frequency |-> "monthly",
      lockup_period |-> "1-year", confirmed_at |-> Ts(2024, 1, 15, 1),
      lockup_end_date |-> NoTs],
     [status |-> "active", amount |-> 1000000, payment_frequency |-> "compounding",
      lockup_period |-> "1-year", confirmed_at |-> MalformedTs,
      lockup_end_date |-> NoTs],
     [status |-> "pending", amount |-> 1000000, payment_frequency |-> "compounding",
      lockup_period |-> "1-year", confirmed_at |-> NoTs,
      lockup_end_date |-> NoTs]}

\* the times of the requests and of the admin's actions
WorkflowTimes ==
    {Ts(2024, 6, 10, 1), Ts(2025, 1, 14, 1), Ts(2025, 1, 15, 0), Ts(2025, 1, 16, 0)}

InitWorkflow ==
    /\ investment \in InvestmentRows
    /\ now = Ts(2024, 6, 10, 1)
    /\ as_of_date = NoTs
    /\ result = Valuations(investment, as_of_date, now)
    /\ final_payout = NoPayout
    /\ SegIdle
    /\ RestIdle

\* the requests that have started and the withdrawals there are
RequestsStarted ==
    Len(withdrawals) + Cardinality({r \in Requesters : requests[r].pc = "found"})

\* get_user_by_id: the request reads the row of the investment
GetUser(r) ==
    /\ requests[r].pc = "idle"
    /\ RequestsStarted < MaxWithdrawals
    /\ requests' = [requests EXCEPT ![r] = [pc |-> "found", status |-> investment.status, response |-> "none"]]
    /\ UNCHANGED <<investment, withdrawals>>

Answer(r, response) ==
    requests' = [requests EXCEPT ![r] = [pc |-> "idle", status |-> NoStr, response |-> response]]

\* a request that does not look at is_withdrawable
refusal_by_status_only(row_status, calculation) ==
    IF row_status # "active" THEN "400"
    ELSE IF calculation.error # "" THEN "500"
    ELSE "none"

\* the answer that refuses the request, "none" when it is not refused
refusal(row_status, calculation) ==
    IF row_status # "active" THEN "400"
    ELSE IF calculation.error # "" THEN "500"
    ELSE IF ~calculation.is_withdrawable THEN "400"
    ELSE "none"

\* the row as the request read it, valued at the time of the clock
calculation_of(r) ==
    calculate_investment_value([investment EXCEPT !.status = requests[r].status], NoTs, FALSE, now)

\* the request is refused
Refuse(r) ==
    /\ requests[r].pc = "found"
    /\ refusal(requests[r].status, calculation_of(r)) # "none"
    /\ Answer(r, refusal(requests[r].status, calculation_of(r)))
    /\ UNCHANGED <<investment, withdrawals>>

\* create_withdrawal inserts the pending withdrawal
CreateWithdrawal(r) ==
    /\ requests[r].pc = "found"
    /\ refusal(requests[r].status, calculation_of(r)) = "none"
    /\ withdrawals' = Append(withdrawals, [status |-> "pending", requested_amount |-> calculation_of(r).current_value])
    /\ requests' = [requests EXCEPT ![r].pc = "created"]
    /\ UNCHANGED investment

\* create_withdrawal returns None
CreateWithdrawalFails(r) ==
    /\ requests[r].pc = "found"
    /\ refusal(requests[r].status, calculation_of(r)) = "none"
    /\ Answer(r, "500")
    /\ UNCHANGED <<investment, withdrawals>>

\* update_investment sets the status, and the request succeeds
UpdateInvestment(r) ==
    /\ requests[r].pc = "created"
    /\ investment' = [investment EXCEPT !.status = "withdrawal_notice"]
    /\ Answer(r, "200")
    /\ UNCHANGED withdrawals

\* update_investment returns None, which is not looked at
UpdateInvestmentFails(r) ==
    /\ requests[r].pc = "created"
    /\ Answer(r, "200")
    /\ UNCHANGED <<investment, withdrawals>>

create_withdrawal_request(r) ==
    /\ \/ GetUser(r)
       \/ Refuse(r)
       \/ CreateWithdrawal(r)
       \/ CreateWithdrawalFails(r)
       \/ UpdateInvestment(r)
       \/ UpdateInvestmentFails(r)
    /\ UNCHANGED <<now, as_of_date, result, final_payout, segVars, loopVars, idVars, admin_response>>

\* the statuses that an action of the admin sets
withdrawal_status_of(action) == IF action = "complete" THEN "approved" ELSE "rejected"
investment_status_of(action) == IF action = "complete" THEN "withdrawn" ELSE "active"

\* the action has been taken already
AlreadyDone(w, action) ==
    /\ withdrawals[w].status = withdrawal_status_of(action)
    /\ admin_response' = "already"
    /\ UNCHANGED <<investment, withdrawals>>

\* the withdrawal and the investment are updated
UpdateBoth(w, action) ==
    /\ withdrawals[w].status # withdrawal_status_of(action)
    /\ withdrawals' = [withdrawals EXCEPT ![w].status = withdrawal_status_of(action)]
    /\ investment' = [investment EXCEPT !.status = investment_status_of(action)]
    /\ admin_response' = "done"

\* the update of the investment returns no data: a warning is printed
UpdateWithdrawalOnly(w, action) ==
    /\ withdrawals[w].status # withdrawal_status_of(action)
    /\ withdrawals' = [withdrawals EXCEPT ![w].status = withdrawal_status_of(action)]
    /\ admin_response' = "done"
    /\ UNCHANGED investment

\* the update of the withdrawal returns no data
UpdateWithdrawalFails(w, action) ==
    /\ withdrawals[w].status # withdrawal_status_of(action)
    /\ admin_response' = "500"
    /\ UNCHANGED <<investment, withdrawals>>

manage_withdrawal(w, action) ==
    /\ \/ AlreadyDone(w, action)
       \/ UpdateBoth(w, action)
       \/ UpdateWithdrawalOnly(w, action)
       \/ UpdateWithdrawalFails(w, action)
    /\ UNCHANGED <<now, as_of_date, result, final_payout, segVars, loopVars, idVars, requests>>

\* time goes by
LaterOn ==
    /\ \E t \in WorkflowTimes : now < t /\ now' = t
    /\ UNCHANGED <<investment, as_of_date, result, final_payout, segVars, restVars>>

NextWorkflow ==
    \/ \E r \in Requesters : create_withdrawal_request(r)
    \/ \E w \in 1..Len(withdrawals), action \in {"complete", "reject"} : manage_withdrawal(w, action)
    \/ LaterOn

SpecWorkflow == InitWorkflow /\ [][NextWorkflow]_vars

-----------------------------------------------------------------------------
(* The final payout calculated as time goes by *)

\* the snapshots a payout is calculated for
PayoutSnapshots == ClockSnapshots \cup OldSnapshots

InitPayout ==
    /\ investment \in PayoutSnapshots
    /\ now = StartTime
    /\ as_of_date = StartTime
    /\ result = Valuations(investment, as_of_date, now)
    /\ final_payout = NoPayout
    /\ RestIdle
    /\ SegIdle

\* the payout is calculated for the time of the clock, which the caller
\* passes as withdrawal_date or leaves out
FinalWithdrawalPayout ==
    /\ final_payout = NoPayout
    /\ \E withdrawal_date \in {now, NoTs} :
           final_payout' = calculate_final_withdrawal_payout(investment, withdrawal_date, now)
    /\ UNCHANGED <<investment, now, as_of_date, result, segVars, restVars>>

NextPayout == ValuateAsOf \/ FinalWithdrawalPayout

SpecPayout == InitPayout /\ [][NextPayout]_vars

-----------------------------------------------------------------------------
(* calculate_compounding and calculate_monthly_payout over segment lists *)

FoldPrincipals == {0, 1, 12345, 100000, 1000000}

FoldSnapshots ==
    {[status |-> "active", amount |-> a, paymentFrequency |-> f,
      lockupPeriod |-> p, confirmedAt |-> Ts(2024, 1, 15, 1)] :
        a \in FoldPrincipals, f \in {"compounding", "monthly"},
        p \in {"1-year", "3-year"}}

\* a segment of the given type and length, as build_accrual_segments makes them
FoldSegment(type, days, days_in_month) ==
    [type |-> type, start |-> 0, end |-> days - 1, days |-> days,
     days_in_month |-> days_in_month]

FoldSegments ==
    {FoldSegment("full", 31, 31), FoldSegment("partial", 1, 31),
     FoldSegment("partial", 15, 30), FoldSegment("partial", 30, 31)}

\* the interest of the segment on the balance is an exact half cent: the
\* double that round() is given is then just above or just below the half
exact_half_cent(segment, balance, apy) ==
    IF segment.type = "full"
    THEN (balance * apy) % 1200 = 600
    ELSE (balance * apy * segment.days) % 36500 = 18250

\* the result of the valuation whose accrual window has the segments segs
FoldValuations(inv, segs) ==
    [include_partial_month \in Modes |->
        value_of_segments(inv, segs, FALSE,
                          lockup_end_date_of(inv, to_utc_start_of_day(confirmation_timestamp_of(inv))))]

InitFold ==
    /\ investment \in FoldSnapshots
    /\ now = StartTime
    /\ as_of_date = StartTime
    /\ segments = <<>>
    /\ result = FoldValuations(investment, segments)
    /\ final_payout = NoPayout
    /\ RestIdle
    /\ start_date = 0
    /\ end_date = 0

\* the window has one more segment, whose interest is not an exact half cent
AppendSegment ==
    /\ Len(segments) < MaxSegments
    /\ \E segment \in FoldSegments :
           /\ ~exact_half_cent(segment, result[TRUE].current_value,
                               RATES_get(lockup_period_of(investment)))
           /\ segments' = Append(segments, segment)
    /\ result' = FoldValuations(investment, segments')
    /\ UNCHANGED <<investment, now, as_of_date, final_payout, start_date, end_date, restVars>>

NextFold == AppendSegment

SpecFold == InitFold /\ [][NextFold]_vars

-----------------------------------------------------------------------------
(* The same valuation asked for again while the clock runs and other calls
   are made *)

\* the explicit evaluation timestamps, one of them a string that is no date
PureTimes == {Ts(2024, 1, 15, 1), Ts(2024, 3, 31, 0), Ts(2024, 6, 10, 1),
              Ts(2025, 1, 15, 0), MalformedTs}

\* the snapshots of the calls made in between
OtherSnapshots ==
    {[status |-> "active", amount |-> 100000, paymentFrequency |-> "monthly",
      lockupPeriod |-> "3-year", confirmedAt |-> Ts(2023, 6, 1, 0)],
     [amount |-> 1000000]}

InitPure ==
    /\ investment \in ClockSnapshots
    /\ now = StartTime
    /\ as_of_date \in PureTimes
    /\ result = Valuations(investment, as_of_date, now)
    /\ final_payout = NoPayout
    /\ RestIdle
    /\ SegIdle

\* the clock has moved on and the valuation is asked for with the same
\* snapshot and the same as_of_date
Revaluate ==
    /\ now < StartTime + PureDays * TicksPerDay
    /\ now' = now + 1
    /\ result' = Valuations(investment, as_of_date, now')
    /\ UNCHANGED <<investment, as_of_date, final_payout, segVars, restVars>>

\* a call for another snapshot, at the time of the clock
OtherPayout ==
    /\ \E other \in OtherSnapshots :
           final_payout' = calculate_final_withdrawal_payout(other, now, now)
    /\ UNCHANGED <<investment, now, as_of_date, result, segVars, restVars>>

NextPure == Revaluate \/ OtherPayout

SpecPure == InitPure /\ [][NextPure]_vars

-----------------------------------------------------------------------------
(* Vocabulary of the properties *)

\* the day the last valuation was made for
EvalDay == to_utc_start_of_day(now)

ConfirmationOf(inv) == confirmation_timestamp_of(inv)
StoredLockupEndOf(inv) == lockup_end_date_value_of(inv)
PeriodOf(inv) == lockup_period_of(inv)
FrequencyOf(inv) == payment_frequency_of(inv)
AmountOf(inv) == amount_of(inv)

\* accruing status, a confirmation timestamp, and timestamps that parse
Accrues(inv) ==
    /\ Get(inv, "status", NoStr) \in {"active", "withdrawal_notice", "withdrawn"}
    /\ ConfirmationOf(inv) >= 0
    /\ StoredLockupEndOf(inv) >= 0 \/ StoredLockupEndOf(inv) = NoTs

ConfirmedDay(inv) == ConfirmationOf(inv) \div TicksPerDay

IsLeapYear(y) == y % 4 = 0 /\ (y % 100 # 0 \/ y % 400 = 0)

\* the length of month m of year y, from the calendar's rule
DaysInMonth(y, m) ==
    IF m \in {4, 6, 9, 11} THEN 30
    ELSE IF m = 2 THEN (IF IsLeapYear(y) THEN 29 ELSE 28)
    ELSE 31

\* the day d is the last of its month
IsMonthEnd(d) == Day(d) = DaysInMonth(Year(d), Month(d))

\* the days d and e are in the same calendar month
SameMonth(d, e) == Year(d) = Year(e) /\ Month(d) = Month(e)

\* the months since year 0 of the month of day d
MonthIndex(d) == Year(d) * 12 + Month(d)

\* the months between the accrual start and the first day of the month of the
\* evaluation date: the rest of the start's month as a fraction, then whole months
CompletedMonths(first, eval) ==
    IF MonthIndex(eval) <= MonthIndex(first) THEN 0
    ELSE IF Day(first) = 1 THEN (MonthIndex(eval) - MonthIndex(first)) * MonthUnit
    ELSE ((DaysInMonth(Year(first), Month(first)) - Day(first) + 1) * MonthUnit)
             \div DaysInMonth(Year(first), Month(first))
         + (MonthIndex(eval) - MonthIndex(first) - 1) * MonthUnit

\* num / den rounded to the nearest whole number: half up, and a half that
\* was rounded up to an odd number taken back
Round2(num, den) ==
    IF (2 * num + den) % (2 * den) = 0 /\ ((2 * num + den) \div (2 * den)) % 2 = 1
    THEN (2 * num + den) \div (2 * den) - 1
    ELSE (2 * num + den) \div (2 * den)

\* the interest of a segment on a balance in cents, apy in percent
ReferenceInterest(segment, balance, apy) ==
    IF segment.type = "full"
    THEN Round2(balance * apy, 12 * 100)
    ELSE Round2(balance * apy * segment.days, 365 * 100)

\* <<balance, total_earnings>> after each of the segments in turn
ReferenceFold(principal, segs, apy) ==
    LET after[i \in 0 .. Len(segs)] ==
            IF i = 0 THEN <<principal, 0>>
            ELSE <<after[i - 1][1] + ReferenceInterest(segs[i], after[i - 1][1], apy),
                   after[i - 1][2] + ReferenceInterest(segs[i], after[i - 1][1], apy)>>
    IN  after[Len(segs)]

\* the number of full segments among the first i
RECURSIVE CountFull(_, _)
CountFull(segs, i) ==
    IF i = 0 THEN 0
    ELSE CountFull(segs, i - 1) + (IF segs[i].type = "full" THEN 1 ELSE 0)

\* the prorated interest of the partial segments among the first i
RECURSIVE SumProrated(_, _, _, _)
SumProrated(segs, i, principal, apy) ==
    IF i = 0 THEN 0
    ELSE SumProrated(segs, i - 1, principal, apy)
         + (IF segs[i].type = "partial"
            THEN Round2(principal * apy * segs[i].days, 365 * 100) ELSE 0)

\* the percent of RATES for the period of the snapshot
ApyOf(inv) == IF PeriodOf(inv) = "3-year" THEN 10 ELSE 8

\* the keys of a snapshot that hold timestamps
TimestampKeys == {"confirmedAt", "confirmed_at", "lockupEndDate", "lockup_end_date"}

\* one of the timestamps of the call does not parse
HasMalformedTimestamp(inv, as_of) ==
    \/ as_of = MalformedTs
    \/ \E k \in DOMAIN inv \cap TimestampKeys : inv[k] = MalformedTs

\* the fields of a valuation result
ResultFields == {"current_value", "total_earnings", "months_elapsed",
                 "is_withdrawable", "lockup_end_date", "monthly_interest_amount"}

\* the $10,000 snapshot of the repository's tests
TestSnapshot(frequency, period, confirmed) ==
    [status |-> "active", amount |-> 1000000, paymentFrequency |-> frequency,
     lockupPeriod |-> period, confirmedAt |-> confirmed]

-----------------------------------------------------------------------------
(* C1 - C10 *)

\* C1: $10,000 compounding, active, confirmed 2024-01-01, valued 2024-04-01
\* in conservative mode is credited exactly three full months:
\* months_elapsed = 3.0, not withdrawable, 10201.34 / 201.34 for 1-year and
\* 10252.09 / 252.09 for 3-year.
C1_ThreeFullMonths ==
    \A p \in {"1-year", "3-year"} :
        (/\ investment = TestSnapshot("compounding", p, Ts(2024, 1, 1, 0))
         /\ EvalDay = DateTime(2024, 4, 1))
        => /\ result[FALSE].months_elapsed = 3 * MonthUnit
           /\ result[FALSE].is_withdrawable = FALSE
           /\ result[FALSE].current_value = (IF p = "1-year" THEN 1020134 ELSE 1025209)
           /\ result[FALSE].total_earnings = (IF p = "1-year" THEN 20134 ELSE 25209)

\* C2: $10,000 monthly payout, 1-year, active, confirmed 2024-01-01, valued
\* 2024-04-01 in conservative mode has current_value 10000.00, total_earnings
\* 200.01 (three times 66.67) and monthly_interest_amount 66.67.
C2_ThreeMonthlyPayouts ==
    (/\ investment = TestSnapshot("monthly", "1-year", Ts(2024, 1, 1, 0))
     /\ EvalDay = DateTime(2024, 4, 1))
    => /\ result[FALSE].current_value = 1000000
       /\ result[FALSE].total_earnings = 3 * 6667
       /\ result[FALSE].monthly_interest_amount = 6667

\* C3: valued on its confirmation date, in either mode, an accruing investment
\* has current_value = principal, total_earnings = 0 and months_elapsed = 0,
\* and on every date the segments that are credited start after the
\* confirmation day (the first at confirmedAt + 1 day).
C3_NoSameDayAccrual ==
    Accrues(investment) =>
        \A m \in Modes :
            /\ EvalDay = ConfirmedDay(investment) =>
                   /\ result[m].current_value = AmountOf(investment)
                   /\ result[m].total_earnings = 0
                   /\ result[m].months_elapsed = 0
            /\ LET segs == build_accrual_segments(
                               accrual_start_of(ConfirmedDay(investment)),
                               calculation_end_of(accrual_start_of(ConfirmedDay(investment)),
                                                  EvalDay, m))
               IN  /\ \A i \in 1 .. Len(segs) : segs[i].start > ConfirmedDay(investment)
                   /\ segs # <<>> => segs[1].start = ConfirmedDay(investment) + 1
                   /\ result[m].months_elapsed > 0 => segs # <<>>

C3_Witness ==
    /\ investment = TestSnapshot("compounding", "1-year", Ts(2024, 1, 15, 1))
    /\ EvalDay = DateTime(2024, 1, 15)
    /\ result[TRUE].total_earnings = 0
    /\ result[TRUE].lockup_end_date = isoformat(DateTime(2025, 1, 15))

\* C4 as stated: in both modes, an evaluation date on or before the
\* accrual-start date (confirmedAt + 1 day) gives total_earnings = 0.
C4_ZeroWindowOriginal ==
    Accrues(investment) =>
        \A m \in Modes :
            EvalDay <= ConfirmedDay(investment) + 1 => result[m].total_earnings = 0

\* C4 as amended: an evaluation date before the accrual-start date gives
\* total_earnings = 0 in both modes, and so does an evaluation date equal to
\* the accrual-start date in conservative mode.
C4_ZeroWindow ==
    Accrues(investment) =>
        /\ \A m \in Modes :
               EvalDay < ConfirmedDay(investment) + 1 => result[m].total_earnings = 0
        /\ EvalDay = ConfirmedDay(investment) + 1 => result[FALSE].total_earnings = 0

C4_Witness ==
    /\ investment = TestSnapshot("monthly", "3-year", Ts(2024, 2, 29, 0))
    /\ EvalDay = DateTime(2024, 3, 1)
    /\ result[FALSE].total_earnings = 0
    /\ result[TRUE].total_earnings > 0

\* C5: for a fixed snapshot and mode, total_earnings (both frequencies) and
\* current_value (compounding) never decrease as the evaluation date advances.
C5_Monotone ==
    [][Accrues(investment) =>
           \A m \in Modes :
               /\ result'[m].total_earnings >= result[m].total_earnings
               /\ FrequencyOf(investment) = "compounding" =>
                      result'[m].current_value >= result[m].current_value]_vars

\* the 30 days of January credited at the daily rate have become the full
\* month credited at the monthly rate
C5_Witness ==
    /\ investment = TestSnapshot("compounding", "1-year", Ts(2023, 12, 31, 0))
    /\ EvalDay = DateTime(2024, 1, 31)
    /\ result[TRUE].months_elapsed = MonthUnit
    /\ result[TRUE].total_earnings = 6667
    /\ result[FALSE].total_earnings = 0

\* C6: without a stored lockupEndDate, is_withdrawable is false on every date
\* before confirmedAt + lockup years, true on that date and on every later
\* one, and never goes back to false.
C6_LockupBoundary ==
    /\ [](Accrues(investment) /\ StoredLockupEndOf(investment) = NoTs
              /\ PeriodOf(investment) \in {"1-year", "3-year"} =>
          \A m \in Modes :
              result[m].is_withdrawable <=>
                  EvalDay >= relativedelta_years(ConfirmedDay(investment),
                                 IF PeriodOf(investment) = "3-year" THEN 3 ELSE 1))
    /\ [][Accrues(investment) /\ StoredLockupEndOf(investment) = NoTs =>
              \A m \in Modes :
                  result[m].is_withdrawable => result'[m].is_withdrawable]_vars

C6_Witness ==
    /\ investment = TestSnapshot("compounding", "1-year", Ts(2024, 1, 15, 1))
    /\ EvalDay = DateTime(2025, 1, 15)
    /\ result[FALSE].is_withdrawable
    /\ result[TRUE].is_withdrawable

\* C7: on every evaluation date, also before accrual starts, is_withdrawable
\* is true iff the evaluation date is on or after lockupEndDate (stored or
\* derived), and is_withdrawable and lockup_end_date are the same in both modes.
C7_WithdrawableIffLockupEnded ==
    Accrues(investment) =>
        /\ \A m \in Modes :
               result[m].is_withdrawable <=>
                   EvalDay >= to_utc_start_of_day(result[m].lockup_end_date)
        /\ result[TRUE].is_withdrawable = result[FALSE].is_withdrawable
        /\ result[TRUE].lockup_end_date = result[FALSE].lockup_end_date

\* C8 as stated: lockup_end_date is the day of the stored lockupEndDate, else
\* confirmedAt plus 1 or 3 years with the same month and the same day of month.
C8_LockupEndOriginal ==
    Accrues(investment) /\ PeriodOf(investment) \in {"1-year", "3-year"} =>
        \A m \in Modes :
            LET led == to_utc_start_of_day(result[m].lockup_end_date)
                c   == ConfirmedDay(investment)
                n   == IF PeriodOf(investment) = "3-year" THEN 3 ELSE 1
            IN  IF StoredLockupEndOf(investment) # NoTs
                THEN led = StoredLockupEndOf(investment) \div TicksPerDay
                ELSE /\ Year(led) = Year(c) + n
                     /\ Month(led) = Month(c)
                     /\ Day(led) = Day(c)

\* C8 as amended: the same, except that a confirmation on February 29 gives
\* February 28 when the year of the lockup end is not a leap year; the result
\* is the UTC midnight of that day.
C8_LockupEnd ==
    Accrues(investment) /\ PeriodOf(investment) \in {"1-year", "3-year"} =>
        \A m \in Modes :
            LET led == to_utc_start_of_day(result[m].lockup_end_date)
                c   == ConfirmedDay(investment)
                n   == IF PeriodOf(investment) = "3-year" THEN 3 ELSE 1
            IN  /\ result[m].lockup_end_date = led * TicksPerDay
                /\ IF StoredLockupEndOf(investment) # NoTs
                   THEN led = StoredLockupEndOf(investment) \div TicksPerDay
                   ELSE /\ Year(led) = Year(c) + n
                        /\ Month(led) = Month(c)
                        /\ Day(led) = (IF Month(c) = 2 /\ Day(c) = 29
                                           /\ ~IsLeapYear(Year(c) + n)
                                       THEN 28 ELSE Day(c))

C8_Witness ==
    /\ investment = TestSnapshot("monthly", "1-year", Ts(2024, 2, 29, 0))
    /\ EvalDay = DateTime(2024, 3, 15)
    /\ result[FALSE].lockup_end_date = isoformat(DateTime(2025, 2, 28))

\* C9: a snapshot whose status is not active, withdrawal_notice or withdrawn,
\* or that has no confirmedAt, is valued at current_value = amount,
\* total_earnings = 0, months_elapsed = 0, not withdrawable, on every date and
\* in both modes.
C9_NoAccrual ==
    (\/ Get(investment, "status", NoStr) \notin {"active", "withdrawal_notice", "withdrawn"}
     \/ ConfirmationOf(investment) = NoTs) =>
        \A m \in Modes :
            /\ result[m].error = ""
            /\ result[m].current_value = AmountOf(investment)
            /\ result[m].total_earnings = 0
            /\ result[m].months_elapsed = 0
            /\ result[m].is_withdrawable = FALSE

\* a pending investment that carries a confirmedAt and a lockupEndDate in the past
C9_Witness ==
    /\ Get(investment, "status", NoStr) = "pending"
    /\ ConfirmationOf(investment) = Ts(2024, 1, 15, 1)
    /\ EvalDay = DateTime(2024, 6, 1)
    /\ result[TRUE].current_value = 1000000
    /\ ~result[TRUE].is_withdrawable

RECURSIVE SumDays(_, _)
SumDays(segs, i) == IF i = 0 THEN 0 ELSE SumDays(segs, i - 1) + segs[i].days

\* C10: for start <= end the segments are a non-empty list that starts at
\* start, ends at end, each segment starting the day after the one before
\* ends, with day counts summing to (end - start) in days + 1; for end < start
\* the list is empty.
C10_SegmentationComplete ==
    IF end_date < start_date
    THEN segments = <<>>
    ELSE /\ segments # <<>>
         /\ segments[1].start = start_date
         /\ segments[Len(segments)].end = end_date
         /\ \A i \in 1 .. Len(segments) - 1 :
                segments[i + 1].start = segments[i].end + 1
         /\ \A i \in 1 .. Len(segments) :
                segments[i].days = (segments[i].end - segments[i].start) + 1
         /\ SumDays(segments, Len(segments)) = (end_date - start_date) + 1

C10_Witness ==
    /\ start_date = DateTime(2024, 1, 16)
    /\ end_date = DateTime(2024, 3, 10)
    /\ Len(segments) = 3
    /\ segments[1].type = "partial"
    /\ segments[2].type = "full"
    /\ segments[3].type = "partial"

-----------------------------------------------------------------------------
(* C11 - C20 *)

\* C11: a segment is tagged full iff it runs from day 1 to the last day of
\* one calendar month with days = days_in_month; a partial segment lies within
\* one calendar month, records that month's length (28 to 31) and has
\* 1 <= days < days_in_month; partial segments are only the first and/or the
\* last of the list, with only full segments between them.
C11_SegmentShape ==
    \A i \in 1 .. Len(segments) :
        LET s == segments[i]
        IN  /\ s.type \in {"full", "partial"}
            /\ s.type = "full" <=>
                   /\ Day(s.start) = 1
                   /\ SameMonth(s.start, s.end)
                   /\ IsMonthEnd(s.end)
                   /\ s.days = s.days_in_month
            /\ SameMonth(s.start, s.end)
            /\ s.days_in_month = DaysInMonth(Year(s.start), Month(s.start))
            /\ s.days_in_month \in 28 .. 31
            /\ s.type = "partial" =>
                   /\ 1 <= s.days
                   /\ s.days < s.days_in_month
                   /\ i = 1 \/ i = Len(segments)

\* a one-day partial of November, two full months, ten days of February
C11_Witness ==
    /\ start_date = DateTime(2024, 11, 30)
    /\ end_date = DateTime(2025, 2, 10)
    /\ Len(segments) = 4
    /\ segments[1].type = "partial" /\ segments[1].days = 1
    /\ segments[2].type = "full" /\ segments[3].type = "full"
    /\ segments[4].type = "partial" /\ segments[4].days_in_month = 28

\* C12: in conservative mode the accrual window ends at the last month end
\* strictly before the evaluation date: a month is credited once the
\* evaluation date is in a later month, the month in progress contributes
\* nothing (the last segment ends on a month end, and a partial segment is
\* only the rest of the month accrual started in), and current_value,
\* total_earnings and months_elapsed are the same on all evaluation dates of
\* one calendar month.
C12_ConservativeMonthEnd ==
    /\ [](Accrues(investment) =>
              LET first == accrual_start_of(ConfirmedDay(investment))
                  last  == calculation_end_of(first, EvalDay, FALSE)
                  segs  == build_accrual_segments(first, last)
              IN  /\ result[FALSE].months_elapsed = CompletedMonths(first, EvalDay)
                  /\ EvalDay >= first =>
                         /\ last < EvalDay
                         /\ MonthIndex(last) < MonthIndex(EvalDay) \/ last = first - 1
                         /\ IF MonthIndex(EvalDay) > MonthIndex(first)
                            THEN /\ IsMonthEnd(last)
                                 /\ MonthIndex(last) = MonthIndex(EvalDay) - 1
                                 /\ segs # <<>>
                                 /\ IsMonthEnd(segs[Len(segs)].end)
                            ELSE segs = <<>>
                         /\ \A i \in 1 .. Len(segs) :
                                segs[i].type = "partial" => i = 1 /\ Day(first) # 1)
    /\ [][result[FALSE].error = "" /\ result'[FALSE].error = ""
              /\ SameMonth(EvalDay, EvalDay') =>
          /\ result'[FALSE].current_value = result[FALSE].current_value
          /\ result'[FALSE].total_earnings = result[FALSE].total_earnings
          /\ result'[FALSE].months_elapsed = result[FALSE].months_elapsed]_vars

\* on the last day of March only the rest of January and February are
\* credited, while inclusive mode has credited March as a full month
C12_Witness ==
    /\ investment = TestSnapshot("compounding", "3-year", Ts(2024, 1, 15, 1))
    /\ EvalDay = DateTime(2024, 3, 31)
    /\ result[FALSE].months_elapsed = (16 * MonthUnit) \div 31 + MonthUnit
    /\ result[TRUE].months_elapsed = (16 * MonthUnit) \div 31 + 2 * MonthUnit

\* C13: for an investment with a confirmation timestamp, the final withdrawal
\* payout for a date has final_value, total_earnings and months_elapsed equal
\* to current_value, total_earnings and months_elapsed of the inclusive-mode
\* valuation for that date, whose accrual window ends on the withdrawal date.
C13_PayoutIsInclusiveValue ==
    (/\ final_payout # NoPayout
     /\ ConfirmationOf(investment) # NoTs
     /\ result[TRUE].error = "") =>
        /\ final_payout.error = ""
        /\ final_payout.final_value = result[TRUE].current_value
        /\ final_payout.total_earnings = result[TRUE].total_earnings
        /\ "months_elapsed" \in DOMAIN final_payout
        /\ final_payout.months_elapsed = result[TRUE].months_elapsed
        /\ Accrues(investment) /\ EvalDay >= accrual_start_of(ConfirmedDay(investment)) =>
               LET first == accrual_start_of(ConfirmedDay(investment))
                   segs  == build_accrual_segments(first,
                                calculation_end_of(first, EvalDay, TRUE))
               IN  segs # <<>> /\ segs[Len(segs)].end = EvalDay

\* C14: the final withdrawal payout of an investment without confirmedAt is
\* final_value = principal and total_earnings = 0, without an error, and every
\* result carries the five fields final_value, total_earnings,
\* principal_amount, months_elapsed and withdrawal_date.
C14_PayoutHasFiveFields ==
    final_payout # NoPayout =>
        /\ Get(investment, "confirmedAt", NoTs) = NoTs =>
               /\ final_payout.error = ""
               /\ final_payout.final_value = AmountOf(investment)
               /\ final_payout.total_earnings = 0
        /\ final_payout.error = "" =>
               {"final_value", "total_earnings", "principal_amount",
                "months_elapsed", "withdrawal_date"} \subseteq DOMAIN final_payout

\* C15: calculate_compounding processes the segments in order, rounding to
\* the cent at every step, each segment's interest computed from the rounded
\* balance the segment before left: balance and total_earnings equal the
\* reference fold for every principal and segment sequence.
C15_CompoundingIsReferenceFold ==
    FrequencyOf(investment) = "compounding" =>
        /\ calculate_compounding(AmountOf(investment), segments, ApyOf(investment))
               = ReferenceFold(AmountOf(investment), segments, ApyOf(investment))
        /\ \A m \in Modes :
               <<result[m].current_value, result[m].total_earnings>>
                   = ReferenceFold(AmountOf(investment), segments, ApyOf(investment))

\* a full month, then 15 days credited on the balance with the first interest
C15_Witness ==
    /\ investment = TestSnapshot("compounding", "1-year", Ts(2024, 1, 15, 1))
    /\ segments = <<FoldSegment("full", 31, 31), FoldSegment("partial", 15, 30)>>
    /\ result[TRUE].current_value = 1000000 + 6667 + 3310
    /\ result[TRUE].total_earnings = 6667 + 3310

\* C16: calculate_monthly_payout returns the principal unchanged and
\* total_earnings = (number of full segments) x round2(principal x APY / 12)
\* + the sum over the partial segments of round2(principal x APY / 365 x days),
\* so the current_value of a monthly-payout valuation is the amount.
C16_MonthlyPayoutKeepsPrincipal ==
    FrequencyOf(investment) = "monthly" =>
        LET principal == AmountOf(investment)
            apy       == ApyOf(investment)
            earnings  == CountFull(segments, Len(segments))
                             * Round2(principal * apy, 12 * 100)
                         + SumProrated(segments, Len(segments), principal, apy)
        IN  /\ calculate_monthly_payout(principal, segments, apy) = <<principal, earnings>>
            /\ \A m \in Modes :
                   /\ result[m].current_value = principal
                   /\ result[m].total_earnings = earnings

\* two full months and 30 days of a third paid out, the principal as it was
C16_Witness ==
    /\ investment = TestSnapshot("monthly", "1-year", Ts(2024, 1, 15, 1))
    /\ segments = <<FoldSegment("full", 31, 31), FoldSegment("full", 31, 31),
                    FoldSegment("partial", 30, 31)>>
    /\ result[FALSE].current_value = 1000000
    /\ result[FALSE].total_earnings = 2 * 6667 + 6575

C18_TotalOnWellFormed ==
    ~HasMalformedTimestamp(investment, as_of_date) =>
        \A m \in Modes :
            /\ result[m].error = ""
            /\ ResultFields \subseteq DOMAIN result[m]
            /\ result[m].current_value >= 0
            /\ result[m].total_earnings >= 0
            /\ result[m].months_elapsed >= 0
            /\ result[m].is_withdrawable \in BOOLEAN

\* the empty snapshot valued at the time of the clock
C18_Witness ==
    /\ DOMAIN investment = {}
    /\ as_of_date = NoTs
    /\ EvalDay = DateTime(2024, 6, 1)
    /\ result[FALSE].error = ""
    /\ result[FALSE].current_value = 0
    /\ result[FALSE].lockup_end_date = NoTs

\* C19 as stated: a malformed confirmedAt, lockupEndDate or evaluation
\* timestamp always ends the call in an error, for every snapshot and status.
C19_MalformedAlwaysFailsOriginal ==
    HasMalformedTimestamp(investment, as_of_date) =>
        \A m \in Modes : result[m].error # ""

\* C19 as amended: the call ends in an error exactly when the snapshot is not
\* empty, has an accruing status and a confirmation timestamp (confirmedAt, or
\* confirmed_at when there is no confirmedAt), and that timestamp, the
\* evaluation timestamp or the lockup end date (lockupEndDate, or
\* lockup_end_date when there is no lockupEndDate) does not parse; otherwise
\* no timestamp is parsed and a result is returned.
C19_MalformedFailsWhenRead ==
    \A m \in Modes :
        result[m].error # "" <=>
            /\ DOMAIN investment # {}
            /\ Get(investment, "status", NoStr) \in {"active", "withdrawal_notice", "withdrawn"}
            /\ OrTs(Get(investment, "confirmedAt", NoTs),
                    Get(investment, "confirmed_at", NoTs)) # NoTs
            /\ \/ OrTs(Get(investment, "confirmedAt", NoTs),
                       Get(investment, "confirmed_at", NoTs)) = MalformedTs
               \/ as_of_date = MalformedTs
               \/ OrTs(Get(investment, "lockupEndDate", NoTs),
                       Get(investment, "lockup_end_date", NoTs)) = MalformedTs

\* an active, confirmed investment valued for a timestamp that is no date
C19_Witness ==
    /\ investment = TestSnapshot("compounding", "1-year", Ts(2024, 1, 15, 1))
    /\ as_of_date = MalformedTs
    /\ now = StartTime + 1
    /\ result[TRUE].error = "ValueError"
    /\ result[FALSE].error = "ValueError"

\* C20: the valuation of an accruing investment whose lockupPeriod is not
\* 1-year or 3-year ends in an error; it is never valued at 8% nor given a
\* lockup end one year after the confirmation.
C20_UnrecognizedPeriodFails ==
    Accrues(investment) /\ PeriodOf(investment) \notin {"1-year", "3-year"} =>
        \A m \in Modes : result[m].error # ""

-----------------------------------------------------------------------------
(* C21 - C30 *)

\* C21: both loops stop; every iteration that does not end its loop moves the
\* cursor forward to the first day of a later month; and the segments are at
\* most as many as the calendar months the window touches.
C21_LoopsTerminate ==
    /\ <>(pc \in {"build_returned", "find_returned"})
    /\ [][(pc \in {"while", "find"} /\ pc' = pc) =>
              (/\ the_cursor' > the_cursor
               /\ Day(the_cursor') = 1
               /\ MonthIndex(the_cursor') > MonthIndex(the_cursor))]_vars
    /\ [](pc = "build_returned" =>
              /\ segments = build_accrual_segments(start_date, end_date)
              /\ end_date >= start_date =>
                     Len(segments) <= MonthIndex(end_date) - MonthIndex(start_date) + 1
              /\ end_date < start_date => Len(segments) = 0)
    /\ [](pc = "find_returned" =>
              (IF the_last_month_end # NoTs THEN the_last_month_end
               ELSE add_days_utc(start_date, 0 - 1))
                  = find_last_completed_month_end(start_date, end_date))

\* the window from 2024-01-16 over four month ends, segmented
C21_Witness ==
    /\ pc = "build_returned"
    /\ start_date = DateTime(2024, 1, 16)
    /\ end_date = DateTime(2024, 5, 15)
    /\ Len(segments) = 5
    /\ the_cursor = DateTime(2024, 5, 1)

\* C22: for an investment with an accruing status and a confirmation,
\* monthly_interest_amount is round2(amount x APY / 12) when paymentFrequency
\* is monthly and 0 when it is compounding, on every evaluation date, before
\* accrual starts as well as after.
C22_MonthlyInterestAmount ==
    /\ [](Accrues(investment) /\ PeriodOf(investment) \in {"1-year", "3-year"} =>
              \A m \in Modes :
                  /\ FrequencyOf(investment) = "monthly" =>
                         result[m].monthly_interest_amount
                             = Round2(AmountOf(investment) * ApyOf(investment), 12 * 100)
                  /\ FrequencyOf(investment) = "compounding" =>
                         result[m].monthly_interest_amount = 0)
    /\ [][Accrues(investment) =>
              \A m \in Modes :
                  result'[m].monthly_interest_amount = result[m].monthly_interest_amount]_vars

\* five days before the confirmation the monthly interest is already shown
C22_Witness ==
    /\ investment = TestSnapshot("monthly", "3-year", Ts(2024, 1, 15, 1))
    /\ EvalDay = DateTime(2024, 1, 10)
    /\ result[FALSE].monthly_interest_amount = 8333
    /\ result[FALSE].total_earnings = 0
    /\ result[FALSE].months_elapsed = 0

\* C23: the lock of get_next_id belongs to one process, so it orders the calls
\* of that process only: two calls that are between taking the lock and
\* returning at the same time are always calls of different processes, and
\* an update writes and returns the current_value its own call selected
\* plus one, whatever the row holds by then, so that two processes that
\* selected the same current_value both write current_value + 1 and both
\* return the same ID.
C23_LockIsPerProcess ==
    /\ [](\A c, d \in Callers : (c # d /\ id_call[c].pc # "idle" /\ id_call[d].pc # "idle") => c[1] # d[1])
    /\ [][\A c \in Callers : (id_call[c].pc = "selected" /\ id_call[c].current_value # NoRow /\ id_counter' # id_counter) =>
              (/\ id_call'[c].pc = "idle" => id_counter' = id_call[c].current_value + 1
               /\ id_call'[c].pc = "idle" => id_returns'[Len(id_returns')] = [caller |-> c, id |-> id_call[c].current_value + 1])]_vars

\* two processes selected 10001, both wrote 10002 and both returned 10002
C23_Witness ==
    /\ Len(id_returns) = 2
    /\ id_returns[1].caller[1] # id_returns[2].caller[1]
    /\ id_returns[1].id = InitialWithdrawalId + 1
    /\ id_returns[2].id = InitialWithdrawalId + 1
    /\ id_counter = InitialWithdrawalId + 1

\* C24: in one process the lock serializes the threads: at most one call is
\* between taking the lock and returning, the row holds at the update what
\* the call selected, and, as long as no database call has failed, each call
\* returns exactly one more than the call before it returned, the first one
\* the first value of the counter or one more than the row held, so that no
\* two calls return the same ID.
C24_ThreadsSerialized ==
    /\ [](\A c, d \in Callers : (id_call[c].pc # "idle" /\ id_call[d].pc # "idle") => c = d)
    /\ [](\A c \in Callers : id_call[c].pc = "selected" => id_call[c].current_value = id_counter)
    /\ []((\A i \in 1..Len(id_returns) : id_returns[i].id # FallbackId) =>
              /\ \A i \in 2..Len(id_returns) : id_returns[i].id = id_returns[i - 1].id + 1
              /\ \A i, j \in 1..Len(id_returns) : id_returns[i].id = id_returns[j].id => i = j
              /\ Len(id_returns) > 0 => id_counter = id_returns[Len(id_returns)].id)

\* the two threads of a process called three times: 10001, 10002, 10003
C24_Witness ==
    /\ Len(id_returns) = 3
    /\ id_returns[1] = [caller |-> <<"p1", "t1">>, id |-> InitialWithdrawalId]
    /\ id_returns[2] = [caller |-> <<"p1", "t2">>, id |-> InitialWithdrawalId + 1]
    /\ id_returns[3] = [caller |-> <<"p1", "t1">>, id |-> InitialWithdrawalId + 2]
    /\ id_counter = InitialWithdrawalId + 2

\* the day the lockup ends: the stored one, else the confirmation plus the years
LockupEndDay(inv) ==
    IF StoredLockupEndOf(inv) # NoTs
    THEN StoredLockupEndOf(inv) \div TicksPerDay
    ELSE relativedelta_years(ConfirmedDay(inv), IF PeriodOf(inv) = "3-year" THEN 3 ELSE 1)

\* the request r has read a row whose status is active and which the engine
\* reports withdrawable at the time of the clock
MayWithdraw(r) ==
    /\ requests[r].status = "active"
    /\ calculate_investment_value([investment EXCEPT !.status = "active"], NoTs, FALSE, now).error = ""
    /\ calculate_investment_value([investment EXCEPT !.status = "active"], NoTs, FALSE, now).is_withdrawable

\* C25: a request that has read the row of the investment creates a pending
\* withdrawal, and then moves the investment to withdrawal_notice, only when
\* the status it read is active and calculate_investment_value reports
\* is_withdrawable; in every other case it answers with an error (400 or 500)
\* and leaves the withdrawals and the investment as they were. A withdrawal
\* is created pending, only at a step of such a request, and only for an
\* investment with a confirmation whose lockup has ended on the day of the
\* clock; the investment becomes withdrawal_notice only by a request that has
\* created its withdrawal.
C25_WithdrawalOnlyAfterLockup ==
    /\ [][\A r \in Requesters : (requests[r].pc = "found" /\ requests'[r] # requests[r]) =>
              (IF MayWithdraw(r)
               THEN \/ /\ requests'[r].pc = "created"
                       /\ Len(withdrawals') = Len(withdrawals) + 1
                       /\ investment' = investment
                    \/ /\ requests'[r].pc = "idle"
                       /\ requests'[r].response = "500"
                       /\ withdrawals' = withdrawals
                       /\ investment' = investment
               ELSE /\ requests'[r].pc = "idle"
                    /\ requests'[r].response \in {"400", "500"}
                    /\ withdrawals' = withdrawals
                    /\ investment' = investment)]_vars
    /\ [][(Len(withdrawals') > Len(withdrawals)) =>
              (/\ withdrawals'[Len(withdrawals')].status = "pending"
               /\ SubSeq(withdrawals', 1, Len(withdrawals)) = withdrawals
               /\ \E r \in Requesters : requests[r].pc = "found" /\ MayWithdraw(r) /\ requests'[r].pc = "created"
               /\ ConfirmationOf(investment) >= 0
               /\ EvalDay >= LockupEndDay(investment))]_vars
    /\ [][(investment'.status = "withdrawal_notice" /\ investment.status # "withdrawal_notice") =>
              (\E r \in Requesters : requests[r].pc = "created" /\ requests'[r].response = "200")]_vars
    /\ [](\A r \in Requesters : requests[r].pc = "created" => Len(withdrawals) > 0)

\* on the day the lockup ends the first request was served, and the second
\* one, which read the status withdrawal_notice, was refused
C25_Witness ==
    /\ now = Ts(2025, 1, 15, 0)
    /\ investment.lockup_end_date = Ts(2025, 1, 15, 1)
    /\ investment.status = "withdrawal_notice"
    /\ withdrawals = <<[status |-> "pending", requested_amount |-> 1079601]>>
    /\ requests["r1"] = [pc |-> "idle", status |-> NoStr, response |-> "200"]
    /\ requests["r2"] = [pc |-> "idle", status |-> NoStr, response |-> "400"]

\* C29: under any sequence of complete and reject actions of the admin the
\* outcome of a withdrawal is final: an approved withdrawal never becomes
\* rejected and a rejected one never becomes approved, an investment that
\* is withdrawn never returns to active, and an action of the admin on a
\* rejected withdrawal never sets the investment to withdrawn.
C29_OutcomeIsFinal ==
    /\ [][\A w \in 1..Len(withdrawals) :
              /\ withdrawals[w].status = "approved" => withdrawals'[w].status # "rejected"
              /\ withdrawals[w].status = "rejected" => withdrawals'[w].status # "approved"
              /\ (withdrawals[w].status = "rejected" /\ admin_response' = "done" /\ withdrawals'[w] # withdrawals[w]) => investment'.status # "withdrawn"]_vars
    /\ [][investment.status = "withdrawn" => investment'.status # "active"]_vars

\* C30: at every moment the investment has at most one pending withdrawal,
\* whatever the interleaving of the requests and whether or not the update
\* of the status of the investment succeeds.
C30_AtMostOnePending ==
    Cardinality({w \in 1..Len(withdrawals) : withdrawals[w].status = "pending"}) <= 1

\* C26: after every segment that calculate_compounding processes the balance
\* is the principal plus total_earnings, exactly, in cents, and the balance
\* and total_earnings are at least what they were before the segment; hence
\* a compounding valuation has current_value - amount = total_earnings and
\* current_value >= amount, and neither goes down when the window gets one
\* more segment.
C26_BalanceIsPrincipalPlusEarnings ==
    /\ [](FrequencyOf(investment) = "compounding" =>
              \A k \in 0..Len(segments) :
                  LET after == calculate_compounding(AmountOf(investment), SubSeq(segments, 1, k), ApyOf(investment))
                      before == calculate_compounding(AmountOf(investment), SubSeq(segments, 1, k - 1), ApyOf(investment))
                  IN  /\ after[1] = AmountOf(investment) + after[2]
                      /\ k > 0 => after[1] >= before[1] /\ after[2] >= before[2])
    /\ [](FrequencyOf(investment) = "compounding" =>
              \A m \in Modes :
                  /\ result[m].current_value - AmountOf(investment) = result[m].total_earnings
                  /\ result[m].current_value >= AmountOf(investment))
    /\ [][(FrequencyOf(investment) = "compounding" /\ segments' # segments) =>
              (\A m \in Modes :
                  /\ result'[m].current_value >= result[m].current_value
                  /\ result'[m].total_earnings >= result[m].total_earnings)]_vars

\* a full month, 30 days of a month of 31 and a full month again
C26_Witness ==
    /\ investment = TestSnapshot("compounding", "1-year", Ts(2024, 1, 15, 1))
    /\ segments = <<FoldSegment("full", 31, 31), FoldSegment("partial", 30, 31), FoldSegment("full", 31, 31)>>
    /\ result[FALSE].total_earnings = 6667 + 6619 + 6755
    /\ result[FALSE].current_value = 1000000 + 6667 + 6619 + 6755

\* the segments of the accrual window of the investment on the day of the
\* clock, in the given mode
SegmentsOn(inv, include_partial_month) ==
    build_accrual_segments(accrual_start_of(ConfirmedDay(inv)),
        calculation_end_of(accrual_start_of(ConfirmedDay(inv)), EvalDay, include_partial_month))

\* a is a prefix of b
IsPrefix(a, b) == Len(a) <= Len(b) /\ SubSeq(b, 1, Len(a)) = a

\* C27: for the same snapshot and the same evaluation date on or after the
\* accrual start, the conservative segment list is a prefix of the inclusive
\* one, total_earnings and months_elapsed of the inclusive valuation are at
\* least those of the conservative one, and the final withdrawal payout for
\* that date is at least the value displayed for it.
C27_PayoutNotLessThanDisplayed ==
    (Accrues(investment) /\ EvalDay >= accrual_start_of(ConfirmedDay(investment))) =>
        /\ IsPrefix(SegmentsOn(investment, FALSE), SegmentsOn(investment, TRUE))
        /\ result[TRUE].total_earnings >= result[FALSE].total_earnings
        /\ result[TRUE].months_elapsed >= result[FALSE].months_elapsed
        /\ final_payout # NoPayout =>
               /\ final_payout.error = ""
               /\ final_payout.final_value >= result[FALSE].current_value

\* the name of a key in the style of the database columns, and back
snake_case_of(key) ==
    CASE key = "confirmedAt" -> "confirmed_at"
      [] key = "lockupPeriod" -> "lockup_period"
      [] key = "paymentFrequency" -> "payment_frequency"
      [] key = "lockupEndDate" -> "lockup_end_date"
      [] OTHER -> key

camelCase_of(key) ==
    CASE key = "confirmed_at" -> "confirmedAt"
      [] key = "lockup_period" -> "lockupPeriod"
      [] key = "payment_frequency" -> "paymentFrequency"
      [] key = "lockup_end_date" -> "lockupEndDate"
      [] OTHER -> key

\* the snapshot carries no field in both styles
OneKeyStyle(inv) ==
    \A j, k \in DOMAIN inv : snake_case_of(j) = snake_case_of(k) => j = k

\* the same snapshot with snake_case keys, and with camelCase keys
in_snake_case(inv) ==
    [k \in {snake_case_of(j) : j \in DOMAIN inv} |-> inv[CHOOSE j \in DOMAIN inv : snake_case_of(j) = k]]

in_camelCase(inv) ==
    [k \in {camelCase_of(j) : j \in DOMAIN inv} |-> inv[CHOOSE j \in DOMAIN inv : camelCase_of(j) = k]]

\* final_value, total_earnings and months_elapsed of a payout, "None" for a
\* field it does not have
PayoutFields(payout) ==
    [k \in {"error", "final_value", "total_earnings", "months_elapsed"} |->
        IF k \in DOMAIN payout THEN payout[k] ELSE NoTs]

\* C28: the engine gives the same result whichever key style the snapshot
\* uses: the valuation of the snapshot in either mode is the valuation of the
\* same snapshot with camelCase keys and of the same snapshot with snake_case
\* keys, and the final withdrawal payout has the same final_value,
\* total_earnings and months_elapsed for both, the snake_case row of the
\* database included.
C28_SameResultInBothKeyStyles ==
    OneKeyStyle(investment) =>
        /\ \A m \in Modes :
               /\ calculate_investment_value(in_camelCase(investment), as_of_date, m, now) = result[m]
               /\ calculate_investment_value(in_snake_case(investment), as_of_date, m, now) = result[m]
        /\ final_payout # NoPayout =>
               /\ PayoutFields(calculate_final_withdrawal_payout(in_camelCase(investment), now, now)) = PayoutFields(final_payout)
               /\ PayoutFields(calculate_final_withdrawal_payout(in_snake_case(investment), now, now)) = PayoutFields(final_payout)

====
